---- MODULE Spec2Model ----
(***************************************************************************)
(* Cost-governance metric exporters.                                       *)
(*                                                                         *)
(*   cost-label-validation.py : the label rule set, the per-resource       *)
(*                              validator and the run_validation job       *)
(*   budget-sync-metrics.py   : record_apptio_api_call, the sync log       *)
(*                              parser and record_sync_operation           *)
(*                                                                         *)
(* Python strings are modelled as sequences of one-character strings, so   *)
(* that the regular expressions, the f-string formatting and the splits    *)
(* of the source are computed character by character.                      *)
(***************************************************************************)
EXTENDS Integers, Sequences, FiniteSets, TLC

VARIABLES
    \* ---- the rule set and the validator called on their own
    lab_pc, rule_key, rule_value, rule_result, vp_pod, vp_result,
    \* ---- cost-label-validation.py: module-level metrics
    invalid_label_format_total,
    pods_missing_cost_label, deployments_missing_cost_label,
    pods_with_valid_labels, deployments_with_valid_labels,
    cost_label_completeness_ratio, pods_by_environment,
    cost_label_validation_timestamp,
    gauges_set,          \* the unlabelled gauges .set() was called on
    \* ---- run_validation: position, locals, outcome
    pc, all_pods, total_pods, pod_i,
    pods_missing_by_label, pods_with_valid, pods_by_env, pod_error,
    all_deployments, total_deployments, dep_i,
    deployments_missing_by_label, deployments_with_valid, dep_error,
    ret,
    \* ---- budget-sync-metrics.py: module-level metrics
    budget_sync_duration_seconds, budget_sync_total,
    budget_sync_services_count, budget_sync_completed_services,
    budget_sync_last_timestamp, budget_creation_total, alert_config_total,
    apptio_api_request_duration_seconds, apptio_api_request_total,
    \* ---- record_apptio_api_call: calls made, arguments and label of the last
    api_calls, api_last,
    \* ---- collect_from_cloud_function_logs: position, the entries read so
    \* far, the arguments of the last record_sync_operation call
    sync_pc, entries, sync_last_call

lab_vars == <<lab_pc, rule_key, rule_value, rule_result, vp_pod, vp_result>>
val_metrics ==
    <<pods_missing_cost_label, deployments_missing_cost_label,
      pods_with_valid_labels, deployments_with_valid_labels,
      cost_label_completeness_ratio, pods_by_environment,
      cost_label_validation_timestamp, gauges_set>>
pod_locals ==
    <<all_pods, total_pods, pod_i, pods_missing_by_label, pods_with_valid,
      pods_by_env, pod_error>>
dep_locals ==
    <<all_deployments, total_deployments, dep_i, deployments_missing_by_label,
      deployments_with_valid, dep_error>>
val_vars == <<pc, pod_locals, dep_locals, ret, val_metrics>>
sync_metrics ==
    <<budget_sync_duration_seconds, budget_sync_total,
      budget_sync_services_count, budget_sync_completed_services,
      budget_sync_last_timestamp, budget_creation_total, alert_config_total>>
api_vars ==
    <<apptio_api_request_duration_seconds, apptio_api_request_total,
      api_calls, api_last>>
sync_vars == <<sync_metrics, sync_pc, entries, sync_last_call>>
vars ==
    <<lab_vars, invalid_label_format_total, val_vars, api_vars, sync_vars>>

\* ------------------------------------------------------------------------
\* Bounds of the model
\* ------------------------------------------------------------------------

\* longest run of characters generated after the "CC-" head of a label value
MaxTail == 6

\* ------------------------------------------------------------------------
\* Characters and strings
\* ------------------------------------------------------------------------

Digits == {"0", "1", "2", "3", "4", "5", "6", "7", "8", "9"}

Letters ==
    {"a", "b", "c", "d", "e", "f", "g", "h", "i", "j", "k", "l", "m",
     "n", "o", "p", "q", "r", "s", "t", "u", "v", "w", "x", "y", "z",
     "A", "B", "C", "D", "E", "F", "G", "H", "I", "J", "K", "L", "M",
     "N", "O", "P", "Q", "R", "S", "T", "U", "V", "W", "X", "Y", "Z"}

\* the class \w of the re module
WordChars == Letters \cup Digits \cup {"_"}

\* the characters str.strip() removes and int() tolerates around a number
Whitespace == {" ", "\n", "\t"}

EmptyStr == << >>

\* s[i:] of Python for a 1-based i
Drop(s, i) == SubSeq(s, i, Len(s))

\* whether the literal lit occurs in s at position i
MatchAt(s, i, lit) ==
    /\ i >= 1
    /\ i + Len(lit) - 1 <= Len(s)
    /\ SubSeq(s, i, i + Len(lit) - 1) = lit

\* position of the leftmost occurrence of lit in s, 0 if none
Find(s, lit) ==
    LET hits == {i \in 1..Len(s) : MatchAt(s, i, lit)}
    IN  IF hits = {} THEN 0 ELSE CHOOSE i \in hits : \A j \in hits : i <= j

\* length of the longest run of characters of class cls starting at s[i]
RECURSIVE RunLen(_, _, _)
RunLen(s, i, cls) ==
    IF i <= Len(s) /\ s[i] \in cls THEN 1 + RunLen(s, i + 1, cls) ELSE 0

\* ------------------------------------------------------------------------
\* cost-label-validation.py: the label rule set
\* ------------------------------------------------------------------------

K_service ==
    <<"c", "o", "s", "t", ".", "s", "e", "r", "v", "i", "c", "e">>
K_team ==
    <<"c", "o", "s", "t", ".", "t", "e", "a", "m">>
K_environment ==
    <<"c", "o", "s", "t", ".", "e", "n", "v", "i", "r", "o", "n", "m", "e", "n", "t">>
K_costCenter ==
    <<"c", "o", "s", "t", ".", "c", "o", "s", "t", "C", "e", "n", "t", "e", "r">>
K_businessUnit ==
    <<"c", "o", "s", "t", ".", "b", "u", "s", "i", "n", "e", "s", "s", "U", "n", "i", "t">>

REQUIRED_COST_LABELS ==
    <<K_service, K_team, K_environment, K_costCenter, K_businessUnit>>

RequiredKeys == {REQUIRED_COST_LABELS[i] : i \in 1..Len(REQUIRED_COST_LABELS)}

R_none == EmptyStr
R_empty_value ==
    <<"e", "m", "p", "t", "y", "_", "v", "a", "l", "u", "e">>
R_invalid_cc_format ==
    <<"i", "n", "v", "a", "l", "i", "d", "_", "c", "c", "_", "f", "o", "r", "m", "a", "t">>
R_invalid_environment ==
    <<"i", "n", "v", "a", "l", "i", "d", "_", "e", "n", "v", "i", "r", "o", "n", "m", "e", "n", "t">>
R_empty_business_unit ==
    <<"e", "m", "p", "t", "y", "_", "b", "u", "s", "i", "n", "e", "s", "s", "_", "u", "n", "i", "t">>

E_int_stable ==
    <<"i", "n", "t", "-", "s", "t", "a", "b", "l", "e">>
E_pre_stable ==
    <<"p", "r", "e", "-", "s", "t", "a", "b", "l", "e">>
E_prod ==
    <<"p", "r", "o", "d">>
E_unknown ==
    <<"u", "n", "k", "n", "o", "w", "n">>

CC_head == <<"C", "C", "-">>

\* re.match(r'^CC-\d{5}$', value): "$" matches at the end of the string and
\* also just before a newline that ends the string
validate_cost_center_format(value) ==
    /\ MatchAt(value, 1, CC_head)
    /\ RunLen(value, 4, Digits) >= 5
    /\ \/ Len(value) = 8
       \/ Len(value) = 9 /\ value[9] = "\n"

validate_business_unit_format(value) == Len(value) > 0

validate_environment_format(value) ==
    value \in {E_int_stable, E_pre_stable, E_prod}

\* the rule set with the key-specific rules consulted before the empty check
validate_label_value_KeyFirst(label_key, label_value) ==
    IF label_key = K_costCenter /\ ~validate_cost_center_format(label_value)
    THEN [valid |-> FALSE, reason |-> R_invalid_cc_format]
    ELSE IF label_key = K_environment /\ ~validate_environment_format(label_value)
    THEN [valid |-> FALSE, reason |-> R_invalid_environment]
    ELSE IF label_key = K_businessUnit /\ ~validate_business_unit_format(label_value)
    THEN [valid |-> FALSE, reason |-> R_empty_business_unit]
    ELSE IF Len(label_value) = 0
    THEN [valid |-> FALSE, reason |-> R_empty_value]
    ELSE [valid |-> TRUE, reason |-> R_none]

validate_label_value(label_key, label_value) ==
    IF Len(label_value) = 0
    THEN [valid |-> FALSE, reason |-> R_empty_value]
    ELSE IF label_key = K_costCenter
    THEN IF ~validate_cost_center_format(label_value)
         THEN [valid |-> FALSE, reason |-> R_invalid_cc_format]
         ELSE [valid |-> TRUE, reason |-> R_none]
    ELSE IF label_key = K_environment
    THEN IF ~validate_environment_format(label_value)
         THEN [valid |-> FALSE, reason |-> R_invalid_environment]
         ELSE [valid |-> TRUE, reason |-> R_none]
    ELSE IF label_key = K_businessUnit
    THEN IF ~validate_business_unit_format(label_value)
         THEN [valid |-> FALSE, reason |-> R_empty_business_unit]
         ELSE [valid |-> TRUE, reason |-> R_none]
    ELSE [valid |-> TRUE, reason |-> R_none]

\* ------------------------------------------------------------------------
\* cost-label-validation.py: the resource label validator
\* ------------------------------------------------------------------------

\* A label mapping is a function from label keys to label values.
NoLabels == [k \in {} |-> EmptyStr]

\* A pod as the kubernetes client hands it over: metadata may be None, and
\* metadata.labels may be None.
Pod(meta, labels_given, labels) ==
    [has_metadata |-> meta, has_labels |-> labels_given, labels |-> labels]

\* "pod.metadata.labels or {}": None and the empty mapping both give {}
LabelsOrEmpty(pod) ==
    IF pod.has_labels /\ DOMAIN pod.labels # {} THEN pod.labels ELSE NoLabels

\* the required labels absent from the mapping, in the order of the list
RECURSIVE MissingFrom(_, _)
MissingFrom(labels, i) ==
    IF i > Len(REQUIRED_COST_LABELS) THEN << >>
    ELSE LET k == REQUIRED_COST_LABELS[i]
         IN  (IF k \notin DOMAIN labels THEN <<k>> ELSE << >>)
             \o MissingFrom(labels, i + 1)

\* the (key, reason) pairs of the present labels the rule set rejects
RECURSIVE InvalidFrom(_, _)
InvalidFrom(labels, i) ==
    IF i > Len(REQUIRED_COST_LABELS) THEN << >>
    ELSE LET k == REQUIRED_COST_LABELS[i]
         IN  (IF k \in DOMAIN labels /\ ~validate_label_value(k, labels[k]).valid
              THEN <<[key |-> k, reason |-> validate_label_value(k, labels[k]).reason]>>
              ELSE << >>)
             \o InvalidFrom(labels, i + 1)

\* f"{k} ({r})"
FormatInvalid(k, r) == k \o <<" ", "(">> \o r \o <<")">>

\* the validator with has_all_valid computed from the missing list alone
validate_pod_labels_MissingOnly(pod) ==
    LET labels == LabelsOrEmpty(pod)
        missing_labels == MissingFrom(labels, 1)
        invalid_labels == InvalidFrom(labels, 1)
    IN  [has_all_valid |-> Len(missing_labels) = 0,
         problems |-> missing_labels \o
                      [i \in 1..Len(invalid_labels) |->
                          FormatInvalid(invalid_labels[i].key, invalid_labels[i].reason)],
         invalid |-> invalid_labels]

validate_pod_labels(pod) ==
    LET labels == LabelsOrEmpty(pod)
        missing_labels == MissingFrom(labels, 1)
        invalid_labels == InvalidFrom(labels, 1)
    IN  [has_all_valid |-> Len(missing_labels) = 0 /\ Len(invalid_labels) = 0,
         problems |-> missing_labels \o
                      [i \in 1..Len(invalid_labels) |->
                          FormatInvalid(invalid_labels[i].key, invalid_labels[i].reason)],
         invalid |-> invalid_labels]

\* counter.labels(...).inc(amount) on a labelled counter: a child is created
\* at 0 on first use
CounterInc(counter, labels, amount) ==
    IF labels \in DOMAIN counter
    THEN [counter EXCEPT ![labels] = @ + amount]
    ELSE [l \in DOMAIN counter \cup {labels} |->
             IF l = labels THEN amount ELSE counter[l]]

\* invalid_label_format_total incremented once per rejected label
RECURSIVE RecordInvalid(_, _, _)
RecordInvalid(counter, invalid_labels, i) ==
    IF i > Len(invalid_labels) THEN counter
    ELSE RecordInvalid(
             CounterInc(counter,
                        <<invalid_labels[i].key, invalid_labels[i].reason>>, 1),
             invalid_labels, i + 1)

NoSamples == [l \in {} |-> 0]

\* ------------------------------------------------------------------------
\* cost-label-validation.py: run_validation
\* ------------------------------------------------------------------------

\* bounds on the cluster a run lists
MaxPods == 3
MaxDeployments == 2

V_payments ==
    <<"p", "a", "y", "m", "e", "n", "t", "s">>
V_core ==
    <<"c", "o", "r", "e">>
V_retail ==
    <<"r", "e", "t", "a", "i", "l">>
V_cc_ok ==
    <<"C", "C", "-", "1", "1", "1", "1", "1">>
V_cc_bad ==
    <<"C", "C", "-", "1">>
V_staging ==
    <<"s", "t", "a", "g", "i", "n", "g">>

AllValidLabels ==
    [k \in RequiredKeys |->
        IF k = K_service THEN V_payments
        ELSE IF k = K_team THEN V_core
        ELSE IF k = K_environment THEN E_prod
        ELSE IF k = K_costCenter THEN V_cc_ok
        ELSE V_retail]

\* the mapping m without key k
Without(m, k) == [x \in DOMAIN m \ {k} |-> m[x]]

PodAllValid == Pod(TRUE, TRUE, AllValidLabels)
PodMissingTeam == Pod(TRUE, TRUE, Without(AllValidLabels, K_team))
PodMissingEnv == Pod(TRUE, TRUE, Without(AllValidLabels, K_environment))
PodBadCostCenter ==
    Pod(TRUE, TRUE, [AllValidLabels EXCEPT ![K_costCenter] = V_cc_bad])
PodStaging ==
    Pod(TRUE, TRUE, [AllValidLabels EXCEPT ![K_environment] = V_staging])
PodNoLabels == Pod(TRUE, FALSE, NoLabels)
\* an item whose metadata is None: reading pod.metadata.labels raises
PodNoMetadata == Pod(FALSE, FALSE, NoLabels)

PodKinds ==
    {PodAllValid, PodMissingTeam, PodMissingEnv, PodBadCostCenter,
     PodStaging, PodNoLabels, PodNoMetadata}

\* A deployment: spec.template.metadata may be None, and so may its labels.
Deployment(meta, labels_given, labels) ==
    [has_metadata |-> meta, has_labels |-> labels_given, labels |-> labels]

DepAllLabels == Deployment(TRUE, TRUE, AllValidLabels)
\* present labels are never validated for a deployment
DepBadValueNoTeam ==
    Deployment(TRUE, TRUE,
        Without([AllValidLabels EXCEPT ![K_costCenter] = V_cc_bad], K_team))
DepNoLabels == Deployment(TRUE, FALSE, NoLabels)
DepNoMetadata == Deployment(FALSE, FALSE, NoLabels)

DeploymentKinds == {DepAllLabels, DepBadValueNoTeam, DepNoLabels, DepNoMetadata}

ListsOf(kinds, n) == UNION {[1..m -> kinds] : m \in 0..n}

\* "'(' in missing_label"
Contains(s, c) == \E i \in 1..Len(s) : s[i] = c

\* "missing_label.split(' (')[0]"
SplitHead(s, sep) ==
    IF Find(s, sep) = 0 THEN s ELSE SubSeq(s, 1, Find(s, sep) - 1)

\* lines 238-241: the label key of an entry of the validator's problem list
LabelKeyOf(missing_label) ==
    IF Contains(missing_label, "(")
    THEN SplitHead(missing_label, <<" ", "(">>)
    ELSE missing_label

\* lines 236-244: the tally after the problem entries from position i on
RECURSIVE TallyProblems(_, _, _)
TallyProblems(tally, problems, i) ==
    IF i > Len(problems) THEN tally
    ELSE LET label_key == LabelKeyOf(problems[i])
         IN  TallyProblems(
                 IF label_key \in DOMAIN tally
                 THEN [tally EXCEPT ![label_key] = @ + 1]
                 ELSE tally,
                 problems, i + 1)

\* lines 290-292: the same for a deployment, whose entries are bare keys
RECURSIVE TallyMissing(_, _, _)
TallyMissing(tally, missing, i) ==
    IF i > Len(missing) THEN tally
    ELSE TallyMissing(
             IF missing[i] \in DOMAIN tally
             THEN [tally EXCEPT ![missing[i]] = @ + 1]
             ELSE tally,
             missing, i + 1)

\* "d[k] = 1": the count already held under k is not read
DictInc_Overwrite(d, k) ==
    [x \in DOMAIN d \cup {k} |-> IF x = k THEN 1 ELSE d[x]]

\* "d.get(k, 0) + 1"
DictInc(d, k) ==
    IF k \in DOMAIN d THEN [d EXCEPT ![k] = @ + 1]
    ELSE [x \in DOMAIN d \cup {k} |-> IF x = k THEN 1 ELSE d[x]]

\* line 227: the environment a pod is counted under
PodEnv(pod) ==
    IF pod.has_labels /\ DOMAIN pod.labels # {}
    THEN IF K_environment \in DOMAIN pod.labels
         THEN pod.labels[K_environment] ELSE E_unknown
    ELSE E_unknown

validate_deployment_labels(deployment) ==
    LET labels == LabelsOrEmpty(deployment)
        missing_labels == MissingFrom(labels, 1)
    IN  [has_all_valid |-> Len(missing_labels) = 0, problems |-> missing_labels]

\* A ratio valid / total is kept as the fraction itself; 1.0 is 1/1.
Ratio(n, d) == [num |-> n, den |-> d]

\* the ratio with 0.0 published for an empty fleet
Completeness_ZeroWhenEmpty(valid, total) ==
    IF total > 0 THEN Ratio(valid, total) ELSE Ratio(0, 1)

\* lines 256-259 and 301-304
Completeness(valid, total) ==
    IF total > 0 THEN Ratio(valid, total) ELSE Ratio(1, 1)

ZeroTally == [k \in RequiredKeys |-> 0]

\* datetime.now().timestamp(): some time after the epoch
Now == 1

\* where run_validation goes on after "except Exception" of the pod pass
AfterPodError_Abort == "done"

AfterPodError == "list_deployments"

AfterDeploymentError == "finish"

\* gauge.labels(l).set(v)
GaugeSet(gauge, l, v) ==
    [x \in DOMAIN gauge \cup {l} |-> IF x = l THEN v ELSE gauge[x]]

\* "for k, v in d.items(): gauge.labels(k).set(v)"
GaugeSetFrom(gauge, d) ==
    [x \in DOMAIN gauge \cup DOMAIN d |-> IF x \in DOMAIN d THEN d[x] ELSE gauge[x]]

NoRuleResult == [valid |-> FALSE, reason |-> R_none]
NoPodResult == [has_all_valid |-> FALSE, problems |-> << >>, invalid |-> << >>]

\* the registry of a process that has not published anything
MetricsFresh ==
    /\ invalid_label_format_total = NoSamples
    /\ pods_missing_cost_label = NoSamples
    /\ deployments_missing_cost_label = NoSamples
    /\ pods_with_valid_labels = 0
    /\ deployments_with_valid_labels = 0
    /\ cost_label_completeness_ratio = [r \in {} |-> Ratio(1, 1)]
    /\ pods_by_environment = NoSamples
    /\ cost_label_validation_timestamp = 0
    /\ gauges_set = {}

LocalsFresh ==
    /\ all_pods = << >>
    /\ total_pods = 0
    /\ pod_i = 1
    /\ pods_missing_by_label = ZeroTally
    /\ pods_with_valid = 0
    /\ pods_by_env = NoSamples
    /\ pod_error = FALSE
    /\ all_deployments = << >>
    /\ total_deployments = 0
    /\ dep_i = 1
    /\ deployments_missing_by_label = ZeroTally
    /\ deployments_with_valid = 0
    /\ dep_error = FALSE
    /\ ret = FALSE

LabIdle ==
    /\ lab_pc = "idle"
    /\ rule_key = EmptyStr
    /\ rule_value = EmptyStr
    /\ rule_result = NoRuleResult
    /\ vp_pod = PodNoLabels
    /\ vp_result = NoPodResult

ValIdle == pc = "idle" /\ LocalsFresh /\ MetricsFresh

\* lines 195-206: the cluster configuration is loaded; a failure of the
\* fallback load_kube_config() is not caught and leaves run_validation
LoadConfig ==
    /\ pc = "start"
    /\ \E outcome \in {"incluster", "kubeconfig", "raises"} :
           pc' = IF outcome = "raises" THEN "raised" ELSE "list_pods"
    /\ UNCHANGED <<pod_locals, dep_locals, ret, val_metrics,
                   invalid_label_format_total, lab_vars, api_vars, sync_vars>>

\* lines 212-223: the pod tallies are initialised and the pods are listed;
\* the listing may raise
ListPods ==
    /\ pc = "list_pods"
    /\ pods_missing_by_label' = ZeroTally
    /\ pods_with_valid' = 0
    /\ pods_by_env' = NoSamples
    /\ pod_i' = 1
    /\ \/ /\ pod_error' = TRUE
          /\ pc' = AfterPodError
          /\ UNCHANGED <<all_pods, total_pods>>
       \/ \E items \in ListsOf(PodKinds, MaxPods) :
              /\ all_pods' = items
              /\ total_pods' = Len(items)
              /\ pc' = "pod_loop"
              /\ UNCHANGED pod_error
    /\ UNCHANGED <<dep_locals, ret, val_metrics, invalid_label_format_total,
                   lab_vars, api_vars, sync_vars>>

\* lines 225-244: one iteration of the pod loop
ProcessPod ==
    /\ pc = "pod_loop"
    /\ pod_i <= total_pods
    /\ LET pod == all_pods[pod_i]
           res == validate_pod_labels(pod)
       IN  IF ~pod.has_metadata
           THEN \* line 227 raises AttributeError, caught at line 265
                /\ pod_error' = TRUE
                /\ pc' = AfterPodError
                /\ UNCHANGED <<pod_i, pods_by_env, pods_with_valid,
                               pods_missing_by_label, invalid_label_format_total>>
           ELSE /\ pods_by_env' = DictInc(pods_by_env, PodEnv(pod))
                /\ invalid_label_format_total' =
                       RecordInvalid(invalid_label_format_total, res.invalid, 1)
                /\ IF res.has_all_valid
                   THEN /\ pods_with_valid' = pods_with_valid + 1
                        /\ UNCHANGED pods_missing_by_label
                   ELSE /\ pods_missing_by_label' =
                               TallyProblems(pods_missing_by_label, res.problems, 1)
                        /\ UNCHANGED pods_with_valid
                /\ pod_i' = pod_i + 1
                /\ UNCHANGED <<pc, pod_error>>
    /\ UNCHANGED <<all_pods, total_pods, dep_locals, ret, val_metrics, lab_vars, api_vars, sync_vars>>

\* lines 246-263: the pod loop has ended and the pod metrics are set
PublishPods ==
    /\ pc = "pod_loop"
    /\ pod_i > total_pods
    /\ pods_missing_cost_label' =
           GaugeSetFrom(pods_missing_cost_label, pods_missing_by_label)
    /\ pods_with_valid_labels' = pods_with_valid
    /\ pods_by_environment' = GaugeSetFrom(pods_by_environment, pods_by_env)
    /\ cost_label_completeness_ratio' =
           GaugeSet(cost_label_completeness_ratio, "pod",
                    Completeness(pods_with_valid, total_pods))
    /\ gauges_set' = gauges_set \cup {"pods_with_valid_labels"}
    /\ pc' = "list_deployments"
    /\ UNCHANGED <<pod_locals, dep_locals, ret, deployments_missing_cost_label,
                   deployments_with_valid_labels, cost_label_validation_timestamp,
                   invalid_label_format_total, lab_vars, api_vars, sync_vars>>

\* lines 272-282: the deployment tallies are initialised and the deployments
\* are listed; the listing may raise
ListDeployments ==
    /\ pc = "list_deployments"
    /\ deployments_missing_by_label' = ZeroTally
    /\ deployments_with_valid' = 0
    /\ dep_i' = 1
    /\ \/ /\ dep_error' = TRUE
          /\ pc' = AfterDeploymentError
          /\ UNCHANGED <<all_deployments, total_deployments>>
       \/ \E items \in ListsOf(DeploymentKinds, MaxDeployments) :
              /\ all_deployments' = items
              /\ total_deployments' = Len(items)
              /\ pc' = "deployment_loop"
              /\ UNCHANGED dep_error
    /\ UNCHANGED <<pod_locals, ret, val_metrics, invalid_label_format_total,
                   lab_vars, api_vars, sync_vars>>

\* lines 284-292: one iteration of the deployment loop
ProcessDeployment ==
    /\ pc = "deployment_loop"
    /\ dep_i <= total_deployments
    /\ LET deployment == all_deployments[dep_i]
           res == validate_deployment_labels(deployment)
       IN  IF ~deployment.has_metadata
           THEN \* line 179 raises AttributeError, caught at line 310
                /\ dep_error' = TRUE
                /\ pc' = AfterDeploymentError
                /\ UNCHANGED <<dep_i, deployments_with_valid,
                               deployments_missing_by_label>>
           ELSE /\ IF res.has_all_valid
                   THEN /\ deployments_with_valid' = deployments_with_valid + 1
                        /\ UNCHANGED deployments_missing_by_label
                   ELSE /\ deployments_missing_by_label' =
                               TallyMissing(deployments_missing_by_label,
                                            res.problems, 1)
                        /\ UNCHANGED deployments_with_valid
                /\ dep_i' = dep_i + 1
                /\ UNCHANGED <<pc, dep_error>>
    /\ UNCHANGED <<all_deployments, total_deployments, pod_locals, ret,
                   val_metrics, invalid_label_format_total, lab_vars, api_vars, sync_vars>>

\* lines 294-308: the deployment loop has ended and its metrics are set
PublishDeployments ==
    /\ pc = "deployment_loop"
    /\ dep_i > total_deployments
    /\ deployments_missing_cost_label' =
           GaugeSetFrom(deployments_missing_cost_label,
                        deployments_missing_by_label)
    /\ deployments_with_valid_labels' = deployments_with_valid
    /\ cost_label_completeness_ratio' =
           GaugeSet(cost_label_completeness_ratio, "deployment",
                    Completeness(deployments_with_valid, total_deployments))
    /\ gauges_set' = gauges_set \cup {"deployments_with_valid_labels"}
    /\ pc' = "finish"
    /\ UNCHANGED <<pod_locals, dep_locals, ret, pods_missing_cost_label,
                   pods_with_valid_labels, pods_by_environment,
                   cost_label_validation_timestamp,
                   invalid_label_format_total, lab_vars, api_vars, sync_vars>>

\* lines 317-324: the completion timestamp is set and True is returned
Finish ==
    /\ pc = "finish"
    /\ cost_label_validation_timestamp' = Now
    /\ gauges_set' = gauges_set \cup {"cost_label_validation_timestamp"}
    /\ ret' = TRUE
    /\ pc' = "done"
    /\ UNCHANGED <<pod_locals, dep_locals, pods_missing_cost_label,
                   deployments_missing_cost_label, pods_with_valid_labels,
                   deployments_with_valid_labels, cost_label_completeness_ratio,
                   pods_by_environment, invalid_label_format_total, lab_vars, api_vars, sync_vars>>

\* ------------------------------------------------------------------------
\* The rule set and the validator applied to generated inputs
\* ------------------------------------------------------------------------

K_app == <<"a", "p", "p">>

\* the keys validate_label_value is called with: the required ones and one
\* that has no rule
RuleKeys == RequiredKeys \cup {K_app}

ValueHeads ==
    {EmptyStr, CC_head, <<"c", "c", "-">>, <<"X", "C", "C", "-">>, <<"C", "C">>}

TailChars == {"1", "a", "\n"}

ValueTails == UNION {[1..n -> TailChars] : n \in 0..MaxTail}

\* the values validate_label_value is called with
LabelValues ==
    {h \o t : h \in ValueHeads, t \in ValueTails}
        \cup {E_int_stable, E_pre_stable, E_prod, V_staging, V_cc_bad}

\* the label mappings validate_pod_labels is called with: every required key
\* absent, valid, rejected by its rule, or empty
LabelStates == {"absent", "valid", "rejected", "empty"}

ValueIn(k, st) ==
    IF st = "empty" THEN EmptyStr
    ELSE IF st = "rejected" /\ k = K_costCenter THEN V_cc_bad
    ELSE IF st = "rejected" /\ k = K_environment THEN V_staging
    ELSE AllValidLabels[k]

MappingOf(choice) ==
    [k \in {x \in RequiredKeys : choice[x] # "absent"} |-> ValueIn(k, choice[k])]

ValidatorPods ==
    {Pod(TRUE, TRUE, MappingOf(c)) : c \in [RequiredKeys -> LabelStates]}
        \cup {PodNoLabels}

CallValidateLabelValue ==
    /\ lab_pc = "rule"
    /\ rule_result' = validate_label_value(rule_key, rule_value)
    /\ lab_pc' = "rule_done"
    /\ UNCHANGED <<rule_key, rule_value, vp_pod, vp_result,
                   invalid_label_format_total, val_vars, api_vars, sync_vars>>

CallValidatePodLabels ==
    /\ lab_pc = "pod"
    /\ vp_result' = validate_pod_labels(vp_pod)
    /\ invalid_label_format_total' =
           RecordInvalid(invalid_label_format_total,
                         validate_pod_labels(vp_pod).invalid, 1)
    /\ lab_pc' = "pod_done"
    /\ UNCHANGED <<rule_key, rule_value, rule_result, vp_pod, val_vars, api_vars, sync_vars>>

\* ------------------------------------------------------------------------
\* budget-sync-metrics.py: record_apptio_api_call
\* ------------------------------------------------------------------------

\* calls of record_apptio_api_call in one run of the model
MaxApiCalls == 2

StatusCodes == {199, 200, 201, 299, 300, 400, 404, 429, 499, 500, 503, 599, 600}
Endpoints == {"/budgets", "/alerts"}
Methods == {"GET", "POST"}

\* Seconds are kept in thousandths: 0.5 s is 500.
ApiDurations == {500}

\* lines 178-187: the status label of a status code
StatusLabel(status_code) ==
    IF 200 <= status_code /\ status_code < 300 THEN "success"
    ELSE IF 400 <= status_code /\ status_code < 500 THEN "client_error"
    ELSE IF 500 <= status_code /\ status_code < 600 THEN "server_error"
    ELSE IF status_code = 429 THEN "rate_limited"
    ELSE "unknown"

\* histogram.labels(...).observe(amount): the count and the sum of a child
HistogramObserve(hist, labels, amount) ==
    IF labels \in DOMAIN hist
    THEN [hist EXCEPT ![labels] = [count |-> @.count + 1, sum |-> @.sum + amount]]
    ELSE [l \in DOMAIN hist \cup {labels} |->
             IF l = labels THEN [count |-> 1, sum |-> amount] ELSE hist[l]]

NoObservations == [l \in {} |-> [count |-> 0, sum |-> 0]]

NoApiCall == [endpoint |-> "", method |-> "", status_code |-> 0, status |-> ""]

ApiIdle ==
    /\ apptio_api_request_duration_seconds = NoObservations
    /\ apptio_api_request_total = NoSamples
    /\ api_calls = 0
    /\ api_last = NoApiCall

\* lines 161-201
RecordApptioApiCall ==
    /\ api_calls < MaxApiCalls
    /\ \E endpoint \in Endpoints, method \in Methods,
          status_code \in StatusCodes, duration_seconds \in ApiDurations :
           LET status == StatusLabel(status_code)
           IN  /\ apptio_api_request_duration_seconds' =
                      HistogramObserve(apptio_api_request_duration_seconds,
                                       <<endpoint, method, status>>, duration_seconds)
               /\ apptio_api_request_total' =
                      CounterInc(apptio_api_request_total,
                                 <<endpoint, method, status>>, 1)
               /\ api_last' = [endpoint |-> endpoint, method |-> method,
                               status_code |-> status_code, status |-> status]
    /\ api_calls' = api_calls + 1
    /\ UNCHANGED <<lab_vars, invalid_label_format_total, val_vars, sync_vars>>

\* ------------------------------------------------------------------------
\* budget-sync-metrics.py: the sync log parser
\* ------------------------------------------------------------------------

\* entries one collection pass reads (the source asks for at most 10)
MaxEntries == 3

P_status ==
    <<"s", "t", "a", "t", "u", "s", "=">>
P_duration ==
    <<"d", "u", "r", "a", "t", "i", "o", "n", "=">>
P_services ==
    <<"s", "e", "r", "v", "i", "c", "e", "s", "=", "{">>
P_budgets ==
    <<"b", "u", "d", "g", "e", "t", "s", "=">>
P_alerts ==
    <<"a", "l", "e", "r", "t", "s", "=">>
L_success ==
    <<"s", "u", "c", "c", "e", "s", "s">>
L_failure ==
    <<"f", "a", "i", "l", "u", "r", "e">>

DigitSeq == <<"0", "1", "2", "3", "4", "5", "6", "7", "8", "9">>

DigitValue(c) == (CHOOSE n \in 1..10 : DigitSeq[n] = c) - 1

\* the number a string of decimal digits denotes; 0 for the empty string
RECURSIVE DecimalValue(_)
DecimalValue(ds) ==
    IF Len(ds) = 0 THEN 0
    ELSE 10 * DecimalValue(SubSeq(ds, 1, Len(ds) - 1)) + DigitValue(ds[Len(ds)])

AllDigits(s) == \A i \in 1..Len(s) : s[i] \in Digits

\* the least element of a set of positions, 0 for the empty set
FirstPos(S) == IF S = {} THEN 0 ELSE CHOOSE i \in S : \A j \in S : i <= j

\* length of the longest run of characters other than c starting at s[i]
RECURSIVE RunUntil(_, _, _)
RunUntil(s, i, c) ==
    IF i <= Len(s) /\ s[i] # c THEN 1 + RunUntil(s, i + 1, c) ELSE 0

CharAt(s, i, c) == i >= 1 /\ i <= Len(s) /\ s[i] = c

\* s.split(c)
RECURSIVE Split(_, _)
Split(s, c) ==
    LET i == Find(s, <<c>>)
    IN  IF i = 0 THEN <<s>>
        ELSE <<SubSeq(s, 1, i - 1)>> \o Split(Drop(s, i + 1), c)

\* s.strip()
RECURSIVE LStrip(_)
LStrip(s) == IF Len(s) > 0 /\ s[1] \in Whitespace THEN LStrip(Drop(s, 2)) ELSE s

RECURSIVE RStrip(_)
RStrip(s) ==
    IF Len(s) > 0 /\ s[Len(s)] \in Whitespace
    THEN RStrip(SubSeq(s, 1, Len(s) - 1)) ELSE s

Strip(s) == RStrip(LStrip(s))

\* int(s): surrounding whitespace and one sign are accepted; anything but
\* decimal digits after them raises ValueError
ParseInt(s) ==
    LET t == Strip(s)
        signed == Len(t) > 0 /\ t[1] \in {"+", "-"}
        body == IF signed THEN Drop(t, 2) ELSE t
    IN  [ok |-> Len(body) > 0 /\ AllDigits(body),
         value |-> IF Len(body) > 0 /\ AllDigits(body)
                   THEN (IF signed /\ t[1] = "-" THEN -1 ELSE 1) * DecimalValue(body)
                   ELSE 0]

\* float(s) for a string of digits and dots: one dot at most and a digit at
\* least, else ValueError. The value is in thousandths.
ParseFloat(s) ==
    LET dot == Find(s, <<".">>)
        whole == IF dot = 0 THEN s ELSE SubSeq(s, 1, dot - 1)
        frac == IF dot = 0 THEN << >> ELSE Drop(s, dot + 1)
        ok == AllDigits(whole) /\ AllDigits(frac) /\ Len(whole) + Len(frac) > 0
    IN  [ok |-> ok,
         value |-> IF ok
                   THEN 1000 * DecimalValue(whole)
                        + DecimalValue(SubSeq(frac \o <<"0", "0", "0">>, 1, 3))
                   ELSE 0]

NoMatch == [found |-> FALSE, group1 |-> EmptyStr, group2 |-> EmptyStr]

\* re.search(r'status=(\w+)', text)
SearchStatus(text) ==
    LET b(i) == i + Len(P_status)
        at == FirstPos({i \in 1..Len(text) :
                  MatchAt(text, i, P_status) /\ RunLen(text, b(i), WordChars) >= 1})
    IN  IF at = 0 THEN NoMatch
        ELSE [found |-> TRUE,
              group1 |-> SubSeq(text, b(at), b(at) + RunLen(text, b(at), WordChars) - 1),
              group2 |-> EmptyStr]

\* re.search(r'duration=([\d.]+)s', text)
SearchDuration(text) ==
    LET b(i) == i + Len(P_duration)
        r(i) == RunLen(text, b(i), Digits \cup {"."})
        at == FirstPos({i \in 1..Len(text) :
                  /\ MatchAt(text, i, P_duration)
                  /\ r(i) >= 1
                  /\ CharAt(text, b(i) + r(i), "s")})
    IN  IF at = 0 THEN NoMatch
        ELSE [found |-> TRUE,
              group1 |-> SubSeq(text, b(at), b(at) + r(at) - 1),
              group2 |-> EmptyStr]

\* re.search(r'services=\{([^}]+)\}', text)
SearchServices(text) ==
    LET b(i) == i + Len(P_services)
        r(i) == RunUntil(text, b(i), "}")
        at == FirstPos({i \in 1..Len(text) :
                  /\ MatchAt(text, i, P_services)
                  /\ r(i) >= 1
                  /\ CharAt(text, b(i) + r(i), "}")})
    IN  IF at = 0 THEN NoMatch
        ELSE [found |-> TRUE,
              group1 |-> SubSeq(text, b(at), b(at) + r(at) - 1),
              group2 |-> EmptyStr]

\* re.search(prefix + r'(\d+)/(\d+)', text), for budgets= and alerts=
SearchPair(text, prefix) ==
    LET b(i) == i + Len(prefix)
        r1(i) == RunLen(text, b(i), Digits)
        c(i) == b(i) + r1(i) + 1
        r2(i) == RunLen(text, c(i), Digits)
        at == FirstPos({i \in 1..Len(text) :
                  /\ MatchAt(text, i, prefix)
                  /\ r1(i) >= 1
                  /\ CharAt(text, b(i) + r1(i), "/")
                  /\ r2(i) >= 1})
    IN  IF at = 0 THEN NoMatch
        ELSE [found |-> TRUE,
              group1 |-> SubSeq(text, b(at), b(at) + r1(at) - 1),
              group2 |-> SubSeq(text, c(at), c(at) + r2(at) - 1)]

NoServices == [e \in {} |-> 0]

\* lines 256-258: the pieces "env: count" are read in order into the
\* mapping; a piece that is not a pair, or whose count is no integer, raises
RECURSIVE ParseServices(_, _, _)
ParseServices(pieces, i, acc) ==
    IF i > Len(pieces) THEN [raised |-> FALSE, dict |-> acc]
    ELSE LET parts == Split(Strip(pieces[i]), ":")
         IN  IF Len(parts) # 2 THEN [raised |-> TRUE, dict |-> acc]
             ELSE LET count == ParseInt(Strip(parts[2]))
                  IN  IF ~count.ok THEN [raised |-> TRUE, dict |-> acc]
                      ELSE ParseServices(pieces, i + 1,
                               GaugeSet(acc, Strip(parts[1]), count.value))

NoArgs ==
    [duration_seconds |-> 0, status |-> EmptyStr, services_synced |-> NoServices,
     budgets_created |-> 0, budgets_failed |-> 0,
     alerts_configured |-> 0, alerts_failed |-> 0]

ParseRaised == [raised |-> TRUE, args |-> NoArgs]

\* a parse that reads the line as one unit: every field has to be found
ParseFields_AllMandatory(text) ==
    LET status_match == SearchStatus(text)
        duration_match == SearchDuration(text)
        duration == ParseFloat(duration_match.group1)
        services_match == SearchServices(text)
        services == ParseServices(Split(services_match.group1, ","), 1, NoServices)
        budgets_match == SearchPair(text, P_budgets)
        alerts_match == SearchPair(text, P_alerts)
    IN  IF \/ ~status_match.found \/ ~duration_match.found \/ ~duration.ok
           \/ ~services_match.found \/ services.raised
           \/ ~budgets_match.found \/ ~alerts_match.found
        THEN ParseRaised
        ELSE [raised |-> FALSE,
              args |-> [duration_seconds |-> duration.value,
                        status |-> status_match.group1,
                        services_synced |-> services.dict,
                        budgets_created |-> DecimalValue(budgets_match.group1),
                        budgets_failed |-> DecimalValue(budgets_match.group2)
                                               - DecimalValue(budgets_match.group1),
                        alerts_configured |-> DecimalValue(alerts_match.group1),
                        alerts_failed |-> DecimalValue(alerts_match.group2)
                                              - DecimalValue(alerts_match.group1)]]

\* lines 249-276: the fields of a log text, or the exception raised on the
\* way (a search that found nothing has no group; float() and int() raise
\* ValueError; a piece without exactly one ":" cannot be unpacked)
ParseFields(text) ==
    LET status_match == SearchStatus(text)
        duration_match == SearchDuration(text)
        duration == ParseFloat(duration_match.group1)
        services_match == SearchServices(text)
        services ==
            IF services_match.found
            THEN ParseServices(Split(services_match.group1, ","), 1, NoServices)
            ELSE [raised |-> FALSE, dict |-> NoServices]
        budgets_match == SearchPair(text, P_budgets)
        budgets_created ==
            IF budgets_match.found THEN DecimalValue(budgets_match.group1) ELSE 0
        budgets_failed ==
            IF budgets_match.found
            THEN DecimalValue(budgets_match.group2) - budgets_created ELSE 0
        alerts_match == SearchPair(text, P_alerts)
        alerts_configured ==
            IF alerts_match.found THEN DecimalValue(alerts_match.group1) ELSE 0
        alerts_failed ==
            IF alerts_match.found
            THEN DecimalValue(alerts_match.group2) - alerts_configured ELSE 0
    IN  IF ~status_match.found THEN ParseRaised
        ELSE IF ~duration_match.found THEN ParseRaised
        ELSE IF ~duration.ok THEN ParseRaised
        ELSE IF services.raised THEN ParseRaised
        ELSE [raised |-> FALSE,
              args |-> [duration_seconds |-> duration.value,
                        status |-> status_match.group1,
                        services_synced |-> services.dict,
                        budgets_created |-> budgets_created,
                        budgets_failed |-> budgets_failed,
                        alerts_configured |-> alerts_configured,
                        alerts_failed |-> alerts_failed]]

\* ------------------------------------------------------------------------
\* The log entries a collection pass may read
\* ------------------------------------------------------------------------

LogPrefix ==
    <<"S", "y", "n", "c", " ", "o", "p", "e", "r", "a", "t", "i", "o", "n", " ", "c", "o", "m", "p", "l", "e", "t", "e", "d", ":", " ">>
Sep == <<",", " ">>

\* An entry is named by the form each of its five fields takes; its payload
\* is the text below.
StatusForms == {"success", "failure", "absent", "empty"}
DurationForms == {"ok", "absent", "twodots", "nounit"}
ServicesForms == {"ok", "absent", "nopair", "nonint", "empty", "sum"}
BudgetsForms == {"ok", "absent", "over", "noslash"}
AlertsForms == {"ok", "absent", "over"}

StatusText(form) ==
    CASE form = "success" -> P_status \o L_success
      [] form = "failure" -> P_status \o L_failure
      [] form = "empty" -> P_status
      [] OTHER -> EmptyStr

DurationText(form) ==
    CASE form = "ok" -> P_duration \o <<"5", ".", "1", "s">>
      [] form = "twodots" -> P_duration \o <<"1", ".", "2", ".", "3", "s">>
      [] form = "nounit" -> P_duration \o <<"5", ".", "1">>
      [] OTHER -> EmptyStr

ServicesText(form) ==
    CASE form = "ok" ->
             P_services \o <<"i", "n", "t", "-", "s", "t", "a", "b", "l", "e", ":", " ", "2", ",", " ", "p", "r", "o", "d", ":", " ", "3", "}">>
      [] form = "nopair" -> P_services \o <<"p", "r", "o", "d", "}">>
      [] form = "nonint" -> P_services \o <<"p", "r", "o", "d", ":", " ", "x", "}">>
      [] form = "empty" -> P_services \o <<"}">>
      \* the line record_sync_operation itself logs carries the sum
      [] form = "sum" -> <<"s", "e", "r", "v", "i", "c", "e", "s", "=", "5">>
      [] OTHER -> EmptyStr

BudgetsText(form) ==
    CASE form = "ok" -> P_budgets \o <<"2", "/", "5">>
      [] form = "over" -> P_budgets \o <<"5", "/", "2">>
      [] form = "noslash" -> P_budgets \o <<"2">>
      [] OTHER -> EmptyStr

AlertsText(form) ==
    CASE form = "ok" -> P_alerts \o <<"0", "/", "3">>
      [] form = "over" -> P_alerts \o <<"4", "/", "1">>
      [] OTHER -> EmptyStr

\* ", ".join of the non-empty texts
RECURSIVE Join(_, _)
Join(texts, i) ==
    IF i > Len(texts) THEN EmptyStr
    ELSE IF Len(texts[i]) = 0 THEN Join(texts, i + 1)
    ELSE IF Len(Join(texts, i + 1)) = 0 THEN texts[i]
    ELSE texts[i] \o Sep \o Join(texts, i + 1)

\* log_entry.payload; every entry matches the query filter of line 228
Payload(entry) ==
    LogPrefix \o
    Join(<<StatusText(entry.status), DurationText(entry.duration),
           ServicesText(entry.services), BudgetsText(entry.budgets),
           AlertsText(entry.alerts)>>, 1)

BaseEntry ==
    [status |-> "success", duration |-> "ok", services |-> "ok",
     budgets |-> "ok", alerts |-> "ok"]

\* the complete line with one field in another form, and the complete line
\* with any of its optional fields left out
LogEntries ==
    {[BaseEntry EXCEPT !.status = f] : f \in StatusForms}
        \cup {[BaseEntry EXCEPT !.duration = f] : f \in DurationForms}
        \cup {[BaseEntry EXCEPT !.services = f] : f \in ServicesForms}
        \cup {[BaseEntry EXCEPT !.budgets = f] : f \in BudgetsForms}
        \cup {[BaseEntry EXCEPT !.alerts = f] : f \in AlertsForms}
        \cup {[BaseEntry EXCEPT !.services = s, !.budgets = b, !.alerts = a] :
                 s \in {"ok", "absent"}, b \in {"ok", "absent"}, a \in {"ok", "absent"}}

\* what _parse_log_entry extracts from each entry
ParseTable == [e \in LogEntries |-> ParseFields(Payload(e))]

\* ------------------------------------------------------------------------
\* budget-sync-metrics.py: record_sync_operation
\* ------------------------------------------------------------------------

\* The sync metrics as one record.
SyncMetrics ==
    [duration |-> budget_sync_duration_seconds,
     total |-> budget_sync_total,
     services_count |-> budget_sync_services_count,
     completed_services |-> budget_sync_completed_services,
     last_timestamp |-> budget_sync_last_timestamp,
     budget_creation |-> budget_creation_total,
     alert_config |-> alert_config_total]

\* lines 132-140: duration, sync count and the per-environment gauges
RecordHead(m, args) ==
    [m EXCEPT
        !.duration = HistogramObserve(@, args.status, args.duration_seconds),
        !.total = CounterInc(@, args.status, 1),
        !.services_count = GaugeSetFrom(@, args.services_synced),
        !.completed_services = GaugeSetFrom(@, args.services_synced)]

\* lines 150-152: time.time() at the t-th entry of the pass
RecordTimestamp(m, args, t) ==
    IF args.status = L_success THEN [m EXCEPT !.last_timestamp = Now + t] ELSE m

\* lines 132-152. Counter.inc raises ValueError for a negative amount: the
\* child that labels() has just looked up or created keeps its value, and
\* the updates after it are not made.
record_sync_operation(m, args, t) ==
    LET Inc(counter, labels, amount) ==
            CounterInc(counter, labels, IF amount < 0 THEN 0 ELSE amount)
        m1 == RecordHead(m, args)
        m2 == [m1 EXCEPT !.budget_creation =
                   Inc(@, "success", args.budgets_created)]
        m3 == [m2 EXCEPT !.budget_creation =
                   Inc(@, "failure", args.budgets_failed)]
        m4 == [m3 EXCEPT !.alert_config =
                   Inc(@, "success", args.alerts_configured)]
        m5 == [m4 EXCEPT !.alert_config =
                   Inc(@, "failure", args.alerts_failed)]
    IN  IF args.budgets_created < 0 THEN [raised |-> TRUE, m |-> m2]
        ELSE IF args.budgets_failed < 0 THEN [raised |-> TRUE, m |-> m3]
        ELSE IF args.alerts_configured < 0 THEN [raised |-> TRUE, m |-> m4]
        ELSE IF args.alerts_failed < 0 THEN [raised |-> TRUE, m |-> m5]
        ELSE [raised |-> FALSE, m |-> RecordTimestamp(m5, args, t)]

\* ------------------------------------------------------------------------
\* budget-sync-metrics.py: BudgetSyncMetricsCollector
\* ------------------------------------------------------------------------

NoCall == [called |-> FALSE, entry |-> 0, args |-> NoArgs]

SyncIdle ==
    /\ budget_sync_duration_seconds = NoObservations
    /\ budget_sync_total = NoSamples
    /\ budget_sync_services_count = NoSamples
    /\ budget_sync_completed_services = NoSamples
    /\ budget_sync_last_timestamp = 0
    /\ budget_creation_total = NoSamples
    /\ alert_config_total = NoSamples
    /\ sync_pc = "idle"
    /\ entries = << >>
    /\ sync_last_call = NoCall

\* an exception that leaves _parse_log_entry ends the loop of line 233
OnParseError_Propagate == "parse_raised"

\* lines 289-290: the exception is logged and _parse_log_entry returns
OnParseError == "loop"

SetSyncMetrics(m) ==
    /\ budget_sync_duration_seconds' = m.duration
    /\ budget_sync_total' = m.total
    /\ budget_sync_services_count' = m.services_count
    /\ budget_sync_completed_services' = m.completed_services
    /\ budget_sync_last_timestamp' = m.last_timestamp
    /\ budget_creation_total' = m.budget_creation
    /\ alert_config_total' = m.alert_config

\* lines 219-231: the logging client is built and the query is issued
ListEntries ==
    /\ sync_pc = "start"
    /\ sync_pc' = "loop"
    /\ UNCHANGED <<sync_metrics, entries, sync_last_call, lab_vars,
                   invalid_label_format_total, val_vars, api_vars>>

\* lines 221-233: building the client, the query or the fetch of a further
\* page raises; nothing catches it
EntriesFail ==
    /\ sync_pc \in {"start", "loop"}
    /\ sync_pc' = "list_raised"
    /\ UNCHANGED <<sync_metrics, entries, sync_last_call, lab_vars,
                   invalid_label_format_total, val_vars, api_vars>>

\* lines 233-290: the next entry is read and handed to _parse_log_entry
ParseLogEntry ==
    /\ sync_pc = "loop"
    /\ Len(entries) < MaxEntries
    /\ \E log_entry \in LogEntries :
           LET parsed == ParseTable[log_entry]
               done == record_sync_operation(SyncMetrics, parsed.args,
                                             Len(entries) + 1)
           IN  /\ entries' = Append(entries, log_entry)
               /\ IF parsed.raised
                  THEN /\ sync_pc' = OnParseError
                       /\ UNCHANGED <<sync_metrics, sync_last_call>>
                  ELSE /\ SetSyncMetrics(done.m)
                       /\ sync_last_call' =
                              [called |-> TRUE, entry |-> Len(entries) + 1,
                               args |-> parsed.args]
                       /\ sync_pc' = IF done.raised THEN OnParseError ELSE "loop"
    /\ UNCHANGED <<lab_vars, invalid_label_format_total, val_vars, api_vars>>

\* line 233: the entries are exhausted
EndOfEntries ==
    /\ sync_pc = "loop"
    /\ sync_pc' = "done"
    /\ UNCHANGED <<sync_metrics, entries, sync_last_call, lab_vars,
                   invalid_label_format_total, val_vars, api_vars>>

\* ------------------------------------------------------------------------
\* Specifications
\* ------------------------------------------------------------------------

InitValidation ==
    pc = "start" /\ LocalsFresh /\ MetricsFresh /\ LabIdle /\ ApiIdle /\ SyncIdle

NextValidation ==
    \/ LoadConfig
    \/ ListPods
    \/ ProcessPod
    \/ PublishPods
    \/ ListDeployments
    \/ ProcessDeployment
    \/ PublishDeployments
    \/ Finish

SpecValidation == InitValidation /\ [][NextValidation]_vars

InitLabels ==
    /\ ValIdle /\ ApiIdle /\ SyncIdle
    /\ rule_result = NoRuleResult
    /\ vp_result = NoPodResult
    /\ \/ /\ lab_pc = "rule"
          /\ rule_key \in RuleKeys
          /\ rule_value \in LabelValues
          /\ vp_pod = PodNoLabels
       \/ /\ lab_pc = "pod"
          /\ rule_key = EmptyStr
          /\ rule_value = EmptyStr
          /\ vp_pod \in ValidatorPods

NextLabels == CallValidateLabelValue \/ CallValidatePodLabels

SpecLabels == InitLabels /\ [][NextLabels]_vars

InitApi == LabIdle /\ ValIdle /\ ApiIdle /\ SyncIdle

NextApi == RecordApptioApiCall

SpecApi == InitApi /\ [][NextApi]_vars

\* SyncIdle but for the position: a collection pass is about to start
InitSync ==
    /\ LabIdle /\ ValIdle /\ ApiIdle
    /\ budget_sync_duration_seconds = NoObservations
    /\ budget_sync_total = NoSamples
    /\ budget_sync_services_count = NoSamples
    /\ budget_sync_completed_services = NoSamples
    /\ budget_sync_last_timestamp = 0
    /\ budget_creation_total = NoSamples
    /\ alert_config_total = NoSamples
    /\ sync_pc = "start"
    /\ entries = << >>
    /\ sync_last_call = NoCall

NextSync == ListEntries \/ EntriesFail \/ ParseLogEntry \/ EndOfEntries

SpecSync == InitSync /\ [][NextSync]_vars

Init == InitValidation \/ InitLabels \/ InitApi \/ InitSync

Next == NextValidation \/ NextLabels \/ NextApi \/ NextSync

Spec == Init /\ [][Next]_vars


\* ------------------------------------------------------------------------
\* Properties of run_validation
\* ------------------------------------------------------------------------

\* the label mapping of a resource, an absent one taken as empty
LabelsOf(res) == IF res.has_labels THEN res.labels ELSE NoLabels

LacksKey(res, k) == k \notin DOMAIN LabelsOf(res)

RejectsKey(res, k) ==
    /\ k \in DOMAIN LabelsOf(res)
    /\ ~validate_label_value(k, LabelsOf(res)[k]).valid

PodIsValid(pod) ==
    \A k \in RequiredKeys : ~LacksKey(pod, k) /\ ~RejectsKey(pod, k)

DeploymentIsValid(dep) == \A k \in RequiredKeys : ~LacksKey(dep, k)

\* how many of the first n items of list satisfy P
CountIn(list, n, P(_)) == Cardinality({i \in 1..n : P(list[i])})

PodPassOver == pc \in {"list_deployments", "deployment_loop", "finish", "done"}

\* C3: when the pod pass fails after some pods were tallied, the pod metrics
\* are still set, from the tally of the pods processed before the failure.
C3_PartialTallyPublished ==
    (PodPassOver /\ pod_error /\ pod_i > 1) =>
        /\ DOMAIN pods_missing_cost_label = RequiredKeys
        /\ \A k \in RequiredKeys :
               pods_missing_cost_label[k] = pods_missing_by_label[k]
        /\ "pods_with_valid_labels" \in gauges_set
        /\ pods_with_valid_labels = pods_with_valid
        /\ pods_by_environment = pods_by_env
        /\ "pod" \in DOMAIN cost_label_completeness_ratio

\* C4: a failed pod pass never stops the run: the deployment pass follows and
\* tallies the deployments alone, the timestamp is set and True is returned.
C4_PassesIndependent ==
    /\ (pod_error /\ pc # "done") => ENABLED NextValidation
    /\ (pod_error /\ pc = "done") =>
           /\ ret = TRUE
           /\ "cost_label_validation_timestamp" \in gauges_set
           /\ cost_label_validation_timestamp = Now
           /\ ~dep_error =>
                  /\ "deployments_with_valid_labels" \in gauges_set
                  /\ DOMAIN deployments_missing_cost_label = RequiredKeys
                  /\ "deployment" \in DOMAIN cost_label_completeness_ratio
    /\ pc \in {"deployment_loop", "finish", "done"} =>
           /\ deployments_with_valid =
                  CountIn(all_deployments, dep_i - 1, DeploymentIsValid)
           /\ \A k \in RequiredKeys :
                  deployments_missing_by_label[k] =
                      CountIn(all_deployments, dep_i - 1, LAMBDA d : LacksKey(d, k))
           /\ (pc = "done" /\ ~dep_error) =>
                  /\ dep_i - 1 = Len(all_deployments)
                  /\ deployments_with_valid_labels = deployments_with_valid
                  /\ \A k \in RequiredKeys :
                         deployments_missing_cost_label[k] =
                             deployments_missing_by_label[k]

\* a run whose pod pass failed on its second pod and whose deployment pass
\* tallied two deployments, one of them complete
C4_Witness ==
    /\ pc = "done"
    /\ pod_error /\ pod_i = 2
    /\ ~dep_error /\ total_deployments = 2
    /\ deployments_with_valid_labels = 1
    /\ ret = TRUE

\* C5: after a complete pod pass the missing count of a key is the number of
\* scanned pods whose labels do not contain the key.
C5_MissingCountsAbsentKeysOnly ==
    (PodPassOver /\ ~pod_error) =>
        \A k \in RequiredKeys :
            pods_missing_by_label[k] =
                CountIn(all_pods, Len(all_pods), LAMBDA p : LacksKey(p, k))

\* C9: a published completeness ratio is valid / total, 1.0 for an empty
\* fleet, within [0,1]; the valid count never exceeds the resources processed.
C9_CompletenessRatio ==
    /\ 0 <= pods_with_valid /\ pods_with_valid <= pod_i - 1
    /\ pod_i - 1 <= total_pods
    /\ 0 <= deployments_with_valid /\ deployments_with_valid <= dep_i - 1
    /\ dep_i - 1 <= total_deployments
    /\ "pod" \in DOMAIN cost_label_completeness_ratio =>
           LET r == cost_label_completeness_ratio["pod"]
               n == Len(all_pods)
           IN  /\ r.den > 0 /\ 0 <= r.num /\ r.num <= r.den
               /\ r.num * n = CountIn(all_pods, n, PodIsValid) * r.den
               /\ n = 0 => r.num = r.den
    /\ "deployment" \in DOMAIN cost_label_completeness_ratio =>
           LET r == cost_label_completeness_ratio["deployment"]
               n == Len(all_deployments)
           IN  /\ r.den > 0 /\ 0 <= r.num /\ r.num <= r.den
               /\ r.num * n = CountIn(all_deployments, n, DeploymentIsValid) * r.den
               /\ n = 0 => r.num = r.den

\* three pods of which one is valid: the ratio 1/3 is published
C9_Witness ==
    /\ "pod" \in DOMAIN cost_label_completeness_ratio
    /\ total_pods = 3 /\ pods_with_valid = 1
    /\ cost_label_completeness_ratio["pod"] = Ratio(1, 3)

\* ------------------------------------------------------------------------
\* Properties of the rule set and of the validator
\* ------------------------------------------------------------------------

\* C6: has_all_valid is true exactly when no required key is missing and no
\* present required key is rejected; no required key at all gives the 5 keys
\* as the problem list, all keys valid gives an empty one.
C6_AllValidIffNothingMissingOrInvalid ==
    lab_pc = "pod_done" =>
        LET missing == {k \in RequiredKeys : LacksKey(vp_pod, k)}
            rejected == {k \in RequiredKeys : RejectsKey(vp_pod, k)}
        IN  /\ vp_result.has_all_valid <=> (missing = {} /\ rejected = {})
            /\ Len(vp_result.problems) = Cardinality(missing) + Cardinality(rejected)
            /\ missing = RequiredKeys =>
                   /\ vp_result.problems = REQUIRED_COST_LABELS
                   /\ ~vp_result.has_all_valid
            /\ (missing = {} /\ rejected = {}) => vp_result.problems = << >>

\* a pod with every key present and only cost.costCenter rejected
C6_Witness ==
    /\ lab_pc = "pod_done"
    /\ DOMAIN LabelsOf(vp_pod) = RequiredKeys
    /\ {k \in RequiredKeys : RejectsKey(vp_pod, k)} = {K_costCenter}
    /\ ~vp_result.has_all_valid
    /\ Len(vp_result.problems) = 1

\* C7: an empty value is rejected with empty_value whatever the key.
C7_EmptyValueFirst ==
    (lab_pc = "rule_done" /\ rule_value = EmptyStr) =>
        rule_result = [valid |-> FALSE, reason |-> R_empty_value]

C7_Witness ==
    /\ lab_pc = "rule_done"
    /\ rule_key = K_costCenter
    /\ rule_value = EmptyStr
    /\ rule_result.reason = R_empty_value

\* "CC-" followed by exactly five decimal digits and nothing else
IsCostCenterCode(value) ==
    /\ Len(value) = 8
    /\ SubSeq(value, 1, 3) = CC_head
    /\ \A i \in 4..8 : value[i] \in Digits

\* C8: a non-empty cost.costCenter value is valid exactly when it is "CC-"
\* followed by five digits and nothing else; any other is invalid_cc_format.
C8_CostCenterExactFormat ==
    (lab_pc = "rule_done" /\ rule_key = K_costCenter /\ rule_value # EmptyStr) =>
        /\ rule_result.valid <=> IsCostCenterCode(rule_value)
        /\ ~rule_result.valid => rule_result.reason = R_invalid_cc_format

\* ------------------------------------------------------------------------
\* Properties of record_apptio_api_call
\* ------------------------------------------------------------------------

\* C1: a call with status code 429 is recorded under the status label
\* rate_limited, never under client_error.
C1_RateLimitedLabel ==
    (api_calls > 0 /\ api_last.status_code = 429) =>
        /\ api_last.status = "rate_limited"
        /\ <<api_last.endpoint, api_last.method, "rate_limited">>
               \in DOMAIN apptio_api_request_total
        /\ <<api_last.endpoint, api_last.method, "client_error">>
               \notin DOMAIN apptio_api_request_total

\* ------------------------------------------------------------------------
\* Properties of the collection pass
\* ------------------------------------------------------------------------

\* what the text of an entry holds, read off the forms of its fields
HasStatus(entry) == entry.status \in {"success", "failure"}
HasDuration(entry) == entry.duration = "ok"
ServicesReadable(entry) == entry.services \notin {"nopair", "nonint"}

StatusOf(entry) == IF entry.status = "success" THEN L_success ELSE L_failure

BudgetsOf(entry) ==
    CASE entry.budgets = "ok" -> [created |-> 2, total |-> 5]
      [] entry.budgets = "over" -> [created |-> 5, total |-> 2]
      [] OTHER -> [created |-> 0, total |-> 0]

AlertsOf(entry) ==
    CASE entry.alerts = "ok" -> [configured |-> 0, total |-> 3]
      [] entry.alerts = "over" -> [configured |-> 4, total |-> 1]
      [] OTHER -> [configured |-> 0, total |-> 0]

\* budget_sync_total{status}
SyncCount(status) ==
    IF status \in DOMAIN budget_sync_total THEN budget_sync_total[status] ELSE 0

\* C2 as stated: no exception leaves _parse_log_entry, and the sync
\* operations recorded are the entries read so far that hold a status and a
\* duration.
C2_RecordedIffStatusAndDuration ==
    /\ sync_pc # "parse_raised"
    /\ DOMAIN budget_sync_total \subseteq {L_success, L_failure}
    /\ \A status \in {L_success, L_failure} :
           SyncCount(status) =
               Cardinality({i \in 1..Len(entries) :
                   /\ HasStatus(entries[i]) /\ HasDuration(entries[i])
                   /\ StatusOf(entries[i]) = status})

\* C2 as amended: no exception leaves _parse_log_entry, and the sync
\* operations recorded are the entries read so far that hold a status, a
\* duration and no unreadable services field, wherever the skipped entries
\* stand among them.
C2_RecordedIffParsable ==
    /\ sync_pc # "parse_raised"
    /\ DOMAIN budget_sync_total \subseteq {L_success, L_failure}
    /\ \A status \in {L_success, L_failure} :
           SyncCount(status) =
               Cardinality({i \in 1..Len(entries) :
                   /\ HasStatus(entries[i]) /\ HasDuration(entries[i])
                   /\ ServicesReadable(entries[i])
                   /\ StatusOf(entries[i]) = status})

\* three entries, the middle one without a status: two are recorded
C2_Witness ==
    /\ sync_pc = "done"
    /\ Len(entries) = 3
    /\ entries[1] = BaseEntry
    /\ entries[2] = [BaseEntry EXCEPT !.status = "absent"]
    /\ entries[3] = [BaseEntry EXCEPT !.status = "failure"]
    /\ SyncCount(L_success) = 1
    /\ SyncCount(L_failure) = 1

\* C10: the four counts handed to record_sync_operation are non-negative,
\* the failed ones being total - created and total - configured of the
\* entry's budgets and alerts fields.
C10_CountsNonNegative ==
    sync_last_call.called =>
        LET args == sync_last_call.args
            entry == entries[sync_last_call.entry]
        IN  /\ args.budgets_created >= 0 /\ args.budgets_failed >= 0
            /\ args.alerts_configured >= 0 /\ args.alerts_failed >= 0
            /\ args.budgets_created = BudgetsOf(entry).created
            /\ args.budgets_failed =
                   BudgetsOf(entry).total - BudgetsOf(entry).created
            /\ args.alerts_configured = AlertsOf(entry).configured
            /\ args.alerts_failed =
                   AlertsOf(entry).total - AlertsOf(entry).configured

\* the mapping the services field of an entry stands for
ServicesOf(entry) ==
    IF entry.services = "ok"
    THEN [e \in {E_int_stable, E_prod} |-> IF e = E_prod THEN 3 ELSE 2]
    ELSE NoServices

\* the entry read last in the pass
LastEntry == entries[Len(entries)]

C12_RecordAlwaysComplete ==
    [][sync_last_call' # sync_last_call =>
          LET args == sync_last_call'.args
          IN  /\ budget_sync_duration_seconds' =
                     HistogramObserve(budget_sync_duration_seconds, args.status,
                                      args.duration_seconds)
              /\ budget_sync_total' = CounterInc(budget_sync_total, args.status, 1)
              /\ budget_sync_services_count' =
                     GaugeSetFrom(budget_sync_services_count, args.services_synced)
              /\ budget_sync_completed_services' =
                     GaugeSetFrom(budget_sync_completed_services,
                                  args.services_synced)
              /\ budget_creation_total' =
                     CounterInc(CounterInc(budget_creation_total, "success",
                                           args.budgets_created),
                                "failure", args.budgets_failed)
              /\ alert_config_total' =
                     CounterInc(CounterInc(alert_config_total, "success",
                                           args.alerts_configured),
                                "failure", args.alerts_failed)
              /\ args.status = L_success =>
                     budget_sync_last_timestamp' = Now + sync_last_call'.entry
    ]_vars

\* the bucket a pod belongs to: its cost.environment value, unknown without one
EnvOf(pod) ==
    IF K_environment \in DOMAIN LabelsOf(pod)
    THEN LabelsOf(pod)[K_environment] ELSE E_unknown

\* the sum of the counts of d over the keys in S
RECURSIVE SumCounts(_, _)
SumCounts(d, S) ==
    IF S = {} THEN 0
    ELSE LET k == CHOOSE x \in S : TRUE
         IN  d[k] + SumCounts(d, S \ {k})

\* C13: each pod processed adds one to exactly one environment bucket, the
\* one of its cost.environment value or unknown, valid or not: every bucket
\* holds the number of processed pods of its environment, and the buckets
\* sum to the number of pods processed so far.
C13_OneBucketPerPod ==
    /\ \A e \in DOMAIN pods_by_env :
           /\ pods_by_env[e] >= 1
           /\ pods_by_env[e] =
                  CountIn(all_pods, pod_i - 1, LAMBDA p : EnvOf(p) = e)
    /\ \A i \in 1..(pod_i - 1) : EnvOf(all_pods[i]) \in DOMAIN pods_by_env
    /\ SumCounts(pods_by_env, DOMAIN pods_by_env) = pod_i - 1

\* three pods processed, one valid, one with a rejected environment and one
\* without labels: three buckets of one pod each
C13_Witness ==
    /\ pc = "pod_loop"
    /\ pod_i = 4
    /\ all_pods = <<PodAllValid, PodStaging, PodNoLabels>>
    /\ pods_with_valid = 1
    /\ pods_by_env =
           [e \in {E_prod, V_staging, E_unknown} |-> 1]
    /\ SumCounts(pods_by_env, DOMAIN pods_by_env) = 3

====
